---- MODULE Spec2Model ----
(***************************************************************************)
(* A model of minesweeper/director/base.py: the director registry, the     *)
(* BaseControl action/history protocol, the Cell geometry and predicate    *)
(* helpers, and the Director lifecycle.                                    *)
(*                                                                         *)
(* Four specifications share the variables below:                          *)
(*   Spec          BaseControl actions and the Director lifecycle          *)
(*   SpecRegistry  register_director / get_directors                       *)
(*   SpecGeom      Cell geometry queries on a W x H board                  *)
(*   SpecFlags     Cell predicate filters and num_flags_left               *)
(***************************************************************************)
EXTENDS Integers, Sequences, FiniteSets, TLC

VARIABLES
    history,          \* BaseControl._history
    calls,            \* every action invocation made on the Control, in order
    director_control, \* Director.control
    director_call,    \* the last call made on the Director and how it ended
    DIRECTORS,        \* the module-level registry _DIRECTORS
    decorators,       \* slugs captured by `register` closures handed out so far
    registrations,    \* every completed registration, in order
    board_size,       \* Control.get_board_size(): <<width, height>>
    board,            \* what Control.get_cell observes: position -> type
    result            \* the last Cell query and what it produced

vars == <<history, calls, director_control, director_call, DIRECTORS,
          decorators, registrations, board_size, board, result>>

control_vars  == <<history, calls>>
director_vars == <<director_control, director_call>>
registry_vars == <<DIRECTORS, decorators, registrations>>
cell_vars     == <<board_size, board, result>>

----------------------------------------------------------------------------
(* Bounds of the model *)

MaxHistory == 2    \* actions issued on the Control
MaxX == 1          \* x coordinates an action is issued with: 0..MaxX
MaxY == 0          \* y coordinates an action is issued with: 0..MaxY
MaxMark == 2       \* mark_num values: 1..MaxMark
MaxRegistrations == 3  \* completed registrations in the registry
MaxW == 3          \* board widths of the geometry queries: 1..MaxW
MaxH == 3          \* board heights of the geometry queries: 1..MaxH
MaxFlagW == 2      \* board widths of the flag queries: 1..MaxFlagW
MaxFlagH == 2      \* board heights of the flag queries: 1..MaxFlagH
MaxFlags == 2      \* flagged cells on a board of the flag queries

\* Python's None; an optional value is None or the value itself (a record)
None == <<>>

\* The one Control of the model
TheControl == [control |-> "BaseControl"]

----------------------------------------------------------------------------
(* BaseControl *)

\* f'mark{mark_num}'
mark_kind(mark_num) == "mark" \o ToString(mark_num)

\* list.append
history_prepend(h, entry) == <<entry>> \o h
history_append(h, entry) == Append(h, entry)

Invocation(op, x, y, mark_num) ==
    [op |-> op, x |-> x, y |-> y, mark_num |-> mark_num]

BaseControl_init ==
    /\ history = <<>>
    /\ calls = <<>>

click(x, y) ==
    /\ Len(history) < MaxHistory
    /\ history' = history_append(history, <<"click", <<x, y>>>>)
    /\ calls' = Append(calls, Invocation("click", x, y, None))
    /\ UNCHANGED <<director_vars, registry_vars, cell_vars>>

right_click(x, y) ==
    /\ Len(history) < MaxHistory
    /\ history' = history_append(history, <<"right_click", <<x, y>>>>)
    /\ calls' = Append(calls, Invocation("right_click", x, y, None))
    /\ UNCHANGED <<director_vars, registry_vars, cell_vars>>

middle_click(x, y) ==
    /\ Len(history) < MaxHistory
    /\ history' = history_append(history, <<"middle_click", <<x, y>>>>)
    /\ calls' = Append(calls, Invocation("middle_click", x, y, None))
    /\ UNCHANGED <<director_vars, registry_vars, cell_vars>>

mark(x, y, mark_num) ==
    /\ Len(history) < MaxHistory
    /\ history' = history_append(history, <<mark_kind(mark_num), <<x, y>>>>)
    /\ calls' = Append(calls, Invocation("mark", x, y, <<mark_num>>))
    /\ UNCHANGED <<director_vars, registry_vars, cell_vars>>

get_history == history

----------------------------------------------------------------------------
(* Director *)

DirectorCall(op, before, arg) ==
    [op |-> op, control_before |-> before, arg |-> arg, outcome |-> "returned"]

DirectorRaise(op, before, arg) ==
    [op |-> op, control_before |-> before, arg |-> arg, outcome |-> "raised"]

\* `if control:` -- None is falsy, a BaseControl object is truthy
Truthy(v) == v # None

Director_init(control) ==
    /\ director_control' = IF Truthy(control) THEN control ELSE None
    /\ director_call' = DirectorCall("__init__", None, control)
    /\ UNCHANGED <<control_vars, registry_vars, cell_vars>>

set_control(control) ==
    /\ director_control' = control
    /\ director_call' = DirectorCall("set_control", director_control, control)
    /\ UNCHANGED <<control_vars, registry_vars, cell_vars>>

reset ==
    /\ director_call' = DirectorCall("reset", director_control, None)
    /\ UNCHANGED <<director_control, control_vars, registry_vars, cell_vars>>

act_checking_control ==
    /\ director_call' = IF director_control = None
                          THEN DirectorRaise("act", director_control, None)
                          ELSE DirectorCall("act", director_control, None)
    /\ UNCHANGED <<director_control, control_vars, registry_vars, cell_vars>>

act ==
    /\ director_call' = DirectorCall("act", director_control, None)
    /\ UNCHANGED <<director_control, control_vars, registry_vars, cell_vars>>

----------------------------------------------------------------------------
(* Registry of directors *)

\* A str argument; anything else handed to register_director is a class
Str(s) == [str |-> s]
isinstance_str(v) == DOMAIN v = {"str"}

\* Director classes (two distinct classes carry the same __name__) and the
\* strings register_director is called with
Classes == { [name |-> "Random", module |-> "a"],
             [name |-> "Random", module |-> "b"],
             [name |-> "Solver", module |-> "a"] }
Slugs == {"foo", "Solver"}

EmptyDict == [s \in {} |-> None]

\* d[k] = v
dict_setdefault(d, k, v) ==
    [s \in DOMAIN d \cup {k} |-> IF s \in DOMAIN d THEN d[s] ELSE v]
dict_setitem(d, k, v) ==
    [s \in DOMAIN d \cup {k} |-> IF s = k THEN v ELSE d[s]]

get_directors == DIRECTORS

\* the inner function `register`, closed over `slug`
register(slug, cls) ==
    DIRECTORS' = dict_setitem(DIRECTORS, slug, cls)

\* what the caller did: the form used, the str given (None in the direct
\* form) and the class that ended up registered
Registration(form, given, cls) == [form |-> form, given |-> given, cls |-> cls]

\* register_director(cls, slug=None)
register_director(cls, slug) ==
    /\ IF isinstance_str(cls)
         THEN \* slug = cls; return register
              /\ decorators' = decorators \cup {cls.str}
              /\ UNCHANGED <<DIRECTORS, registrations>>
         ELSE \* slug = cls.__name__; register(cls)
              /\ Len(registrations) < MaxRegistrations
              /\ register(cls.name, cls)
              /\ registrations' =
                     Append(registrations, Registration("direct", None, cls))
              /\ UNCHANGED decorators
    /\ UNCHANGED <<control_vars, director_vars, cell_vars>>

\* a decorator returned by register_director(<str>) is applied to a class
apply_decorator(slug, cls) ==
    /\ slug \in decorators
    /\ Len(registrations) < MaxRegistrations
    /\ register(slug, cls)
    /\ registrations' =
           Append(registrations, Registration("decorator", slug, cls))
    /\ UNCHANGED <<decorators, control_vars, director_vars, cell_vars>>

NextRegistry ==
    \/ \E cls \in Classes, slug \in {None} \cup {Str(s) : s \in Slugs} :
           register_director(cls, slug)
    \/ \E s \in Slugs : register_director(Str(s), None)
    \/ \E slug \in Slugs, cls \in Classes : apply_decorator(slug, cls)

----------------------------------------------------------------------------
(* Cell *)

TYPE_NUMBER0 == 0
TYPE_NUMBER1 == 1
TYPE_NUMBER8 == 8
TYPE_UNREVEALED == 9
TYPE_FLAG == 10

CellTypes == TYPE_NUMBER0..TYPE_FLAG

Range(seq) == { seq[i] : i \in 1..Len(seq) }

\* a Python int object, so that an optional int is None or Int_(v)
Int_(v) == [int |-> v]

\* Control.get_board_size()
get_board_size == board_size

\* Cell.__init__
Cell(x, y, type_) ==
    [x |-> x, y |-> y, type |-> type_, idx |-> x * get_board_size[2] + y]

\* Control.get_cell: the Cell at grid x, y; None if out-of-bounds
get_cell(x, y) ==
    IF /\ 0 <= x /\ x < get_board_size[1]
       /\ 0 <= y /\ y < get_board_size[2]
      THEN Cell(x, y, board[<<x, y>>])
      ELSE None

\* Control.get_cells, as a set
get_cells ==
    { get_cell(x, y) : x \in 0..(get_board_size[1] - 1),
                       y \in 0..(get_board_size[2] - 1) }

is_flagged(self) == self.type = TYPE_FLAG

is_number_with_zero(self) ==
    TYPE_NUMBER0 <= self.type /\ self.type <= TYPE_NUMBER8
is_number(self) ==
    TYPE_NUMBER0 < self.type /\ self.type <= TYPE_NUMBER8

number(self) == IF is_number(self) THEN Int_(self.type) ELSE None

is_empty(self) == self.type = TYPE_NUMBER0

is_unrevealed(self) == self.type = TYPE_UNREVEALED

is_revealed_ignoring_flag(self) == ~is_unrevealed(self)
is_revealed(self) == ~is_unrevealed(self) /\ ~is_flagged(self)

\* getattr(cell, name)()
call_method(cell, name) ==
    CASE name = "is_flagged" -> is_flagged(cell)
      [] name = "is_number" -> is_number(cell)
      [] name = "is_empty" -> is_empty(cell)
      [] name = "is_unrevealed" -> is_unrevealed(cell)
      [] name = "is_revealed" -> is_revealed(cell)

\* minesweeper.util.apply_method_filter: keep the cells on which every named
\* zero-argument predicate returns the requested value; filters is a set of
\* <<name, value>> keyword arguments
apply_method_filter(cells, filters) ==
    SelectSeq(cells, LAMBDA c : \A f \in filters : call_method(c, f[1]) = f[2])

get_neighbor_at(self, d_x, d_y) == get_cell(self.x + d_x, self.y + d_y)

_get_neighbours(self, vectors, filters) ==
    LET starmapped == [i \in 1..Len(vectors) |->
                          get_neighbor_at(self, vectors[i][1], vectors[i][2])]
        present == SelectSeq(starmapped, Truthy)
        neighbors == apply_method_filter(present, filters)
    IN  Range(neighbors)

get_cardinal_neighbor_deltas ==
    << <<0, -1>>, <<1, 0>>, <<0, 1>>, <<-1, 0>> >>

get_neighbor_deltas_cardinal_only == get_cardinal_neighbor_deltas
get_neighbor_deltas ==
    << <<-1, -1>>, <<0, -1>>, <<1, -1>>, <<1, 0>>,
       <<1, 1>>, <<0, 1>>, <<-1, 1>>, <<-1, 0>> >>

get_neighbors(self, filters) ==
    _get_neighbours(self, get_neighbor_deltas, filters)

get_cardinal_neighbors(self, filters) ==
    _get_neighbours(self, get_cardinal_neighbor_deltas, filters)

get_neighbor_across_from_extending(self, cell) ==
    LET d_x == cell.x - self.x
        d_y == cell.y - self.y
    IN  IF <<d_x, d_y>> \in Range(get_neighbor_deltas)
          THEN get_neighbor_at(cell, d_x, d_y)
          ELSE None
get_neighbor_across_from(self, cell) ==
    LET d_x == self.x - cell.x
        d_y == self.y - cell.y
    IN  IF <<d_x, d_y>> \in Range(get_neighbor_deltas)
          THEN get_neighbor_at(cell, d_x, d_y)
          ELSE None

get_cardinal_neighbor_across_from_returning(self, cell) ==
    LET d_x == self.x - cell.x
        d_y == self.y - cell.y
    IN  IF <<d_x, d_y>> \in Range(get_cardinal_neighbor_deltas)
          THEN get_neighbor_at(cell, d_x, d_y)
          ELSE None
get_cardinal_neighbor_across_from(self, cell) ==
    LET d_x == cell.x - self.x
        d_y == cell.y - self.y
    IN  IF <<d_x, d_y>> \in Range(get_cardinal_neighbor_deltas)
          THEN get_neighbor_at(cell, d_x, d_y)
          ELSE None

\* d /= d for d # 0: true division, always 1.0, whatever the sign of d; the
\* float equals the int 1 and get_cell resolves it as such
SelfDivide(d) == 1

\* the deltas get_perpendicular_neighbors_from hands to _get_neighbours
perpendicular_deltas(self, cell) ==
    LET d_x == self.x - cell.x
        d_y == self.y - cell.y
        deltas0 == <<>>
        deltas1 == IF d_x # 0
                     THEN << <<SelfDivide(d_x), 1>>, <<SelfDivide(d_x), -1>> >>
                     ELSE deltas0
        deltas2 == IF d_y # 0
                     THEN << <<SelfDivide(d_y), 1>>, <<SelfDivide(d_y), -1>> >>
                     ELSE deltas1
    IN  deltas2

get_perpendicular_neighbors_from(self, cell) ==
    IF self.x # cell.x /\ self.y # cell.y
      THEN {}
      ELSE _get_neighbours(self, perpendicular_deltas(self, cell), {})

Returned(v) == [outcome |-> "returned", value |-> v]
Raised(e)   == [outcome |-> "raised", value |-> e]

num_flags_left_clamped(self) ==
    LET n == number(self)
        flagged == get_neighbors(self, {<<"is_flagged", TRUE>>})
        left == n.int - Cardinality(flagged)
    IN  IF n = None
          THEN Raised("TypeError")
          ELSE Returned(Int_(IF left < 0 THEN 0 ELSE left))
\* self.number - len(self.get_neighbors(is_flagged=True)); the subtraction
\* raises TypeError when self.number is None
num_flags_left(self) ==
    LET n == number(self)
        flagged == get_neighbors(self, {<<"is_flagged", TRUE>>})
    IN  IF n = None
          THEN Raised("TypeError")
          ELSE Returned(Int_(n.int - Cardinality(flagged)))

----------------------------------------------------------------------------
(* Cell queries as steps: each records the call and what it produced *)

Query(op, self, cell, filters, res) ==
    [op |-> op, self |-> self, cell |-> cell, filters |-> filters,
     outcome |-> res.outcome, value |-> res.value]

Frame == UNCHANGED <<control_vars, director_vars, registry_vars,
                     board_size, board>>

Query_get_neighbors(self, filters) ==
    /\ result' = Query("get_neighbors", self, None, filters,
                       Returned(get_neighbors(self, filters)))
    /\ Frame

Query_get_cardinal_neighbors(self, filters) ==
    /\ result' = Query("get_cardinal_neighbors", self, None, filters,
                       Returned(get_cardinal_neighbors(self, filters)))
    /\ Frame

Query_get_neighbor_across_from(self, cell) ==
    /\ result' = Query("get_neighbor_across_from", self, cell, {},
                       Returned(get_neighbor_across_from(self, cell)))
    /\ Frame

Query_get_cardinal_neighbor_across_from(self, cell) ==
    /\ result' = Query("get_cardinal_neighbor_across_from", self, cell, {},
                       Returned(get_cardinal_neighbor_across_from(self, cell)))
    /\ Frame

Query_get_perpendicular_neighbors_from(self, cell) ==
    /\ result' = Query("get_perpendicular_neighbors_from", self, cell, {},
                       Returned(get_perpendicular_neighbors_from(self, cell)))
    /\ Frame

Query_num_flags_left(self) ==
    /\ result' = Query("num_flags_left", self, None, {}, num_flags_left(self))
    /\ Frame

----------------------------------------------------------------------------
(* Specifications *)

Init ==
    /\ BaseControl_init
    /\ director_control = None
    /\ director_call = DirectorCall("__init__", None, None)
    /\ DIRECTORS = EmptyDict
    /\ decorators = {}
    /\ registrations = <<>>
    /\ board_size = <<1, 1>>
    /\ board = <<>>
    /\ result = None

Next ==
    \/ \E x \in 0..MaxX, y \in 0..MaxY : click(x, y)
    \/ \E x \in 0..MaxX, y \in 0..MaxY : right_click(x, y)
    \/ \E x \in 0..MaxX, y \in 0..MaxY : middle_click(x, y)
    \/ \E x \in 0..MaxX, y \in 0..MaxY, mark_num \in 1..MaxMark : mark(x, y, mark_num)
    \/ \E control \in {None, TheControl} : Director_init(control)
    \/ \E control \in {None, TheControl} : set_control(control)
    \/ reset
    \/ act

Spec == Init /\ [][Next]_vars

SpecRegistry == Init /\ [][NextRegistry]_vars

Positions(size) == (0..(size[1] - 1)) \X (0..(size[2] - 1))

\* a board nobody has played yet
InitGeom ==
    /\ BaseControl_init
    /\ director_control = None
    /\ director_call = DirectorCall("__init__", None, None)
    /\ DIRECTORS = EmptyDict
    /\ decorators = {}
    /\ registrations = <<>>
    /\ board_size \in (1..MaxW) \X (1..MaxH)
    /\ board = [p \in Positions(board_size) |-> TYPE_UNREVEALED]
    /\ result = None

NextGeom ==
    \/ \E self \in get_cells : Query_get_neighbors(self, {})
    \/ \E self \in get_cells : Query_get_cardinal_neighbors(self, {})
    \/ \E self, cell \in get_cells : Query_get_neighbor_across_from(self, cell)
    \/ \E self, cell \in get_cells :
           Query_get_cardinal_neighbor_across_from(self, cell)
    \/ \E self, cell \in get_cells :
           Query_get_perpendicular_neighbors_from(self, cell)

SpecGeom == InitGeom /\ [][NextGeom]_vars

\* the types a board of the flag queries shows away from its flags and from
\* the one cell of any type
Backgrounds == {TYPE_UNREVEALED, TYPE_NUMBER0, TYPE_NUMBER1}

\* a game in progress: one click issued, at most MaxFlags flags placed, one
\* cell of any type on a uniform background
InitFlags ==
    /\ history = << <<"click", <<0, 0>>>> >>
    /\ calls = << Invocation("click", 0, 0, None) >>
    /\ director_control = TheControl
    /\ director_call = DirectorCall("__init__", None, TheControl)
    /\ DIRECTORS = EmptyDict
    /\ decorators = {}
    /\ registrations = <<>>
    /\ board_size \in (1..MaxFlagW) \X (1..MaxFlagH)
    /\ \E flags \in SUBSET Positions(board_size),
          p \in Positions(board_size), t \in CellTypes, bg \in Backgrounds :
           /\ Cardinality(flags) <= MaxFlags
           /\ board = [q \in Positions(board_size) |->
                          IF q = p THEN t
                          ELSE IF q \in flags THEN TYPE_FLAG ELSE bg]
    /\ result = None

\* one query is asked of each board observed: a query changes nothing but
\* `result`, so asking further ones reaches no other state
NextFlags ==
    \/ \E self \in get_cells :
           result = None /\ Query_get_neighbors(self, {<<"is_flagged", TRUE>>})
    \/ \E self \in get_cells :
           result = None /\ Query_get_neighbors(self, {<<"is_revealed", TRUE>>})
    \/ \E self \in get_cells :
           result = None /\ Query_num_flags_left(self)

SpecFlags == InitFlags /\ [][NextFlags]_vars


----------------------------------------------------------------------------
(* Claims about the Control and the Director (checked under Spec) *)

ExpectedMarkKind(v) ==
    CASE v = 1 -> "mark1"
      [] v = 2 -> "mark2"
      [] v = 3 -> "mark3"
      [] v = 4 -> "mark4"

ExpectedEntry(c) ==
    IF c.op = "mark"
      THEN <<ExpectedMarkKind(c.mark_num[1]), <<c.x, c.y>>>>
      ELSE <<c.op, <<c.x, c.y>>>>

\* C1: after any sequence of click, right_click, middle_click and mark
\* invocations, get_history() is exactly the sequence of their entries
\* ("click",(x,y)), ("right_click",(x,y)), ("middle_click",(x,y)),
\* ("mark"+v,(x,y)) in invocation order, one entry per invocation.
C1_HistoryIsInvocationLog ==
    /\ Len(get_history) = Len(calls)
    /\ \A i \in 1..Len(calls) : get_history[i] = ExpectedEntry(calls[i])

\* C1 witness: a click followed later by a mark of value 2 at another cell
C1_Witness ==
    /\ Len(calls) >= 2
    /\ calls[1].op = "click"
    /\ calls[Len(calls)].op = "mark"
    /\ calls[Len(calls)].mark_num = <<2>>
    /\ calls[1].x # calls[Len(calls)].x

----------------------------------------------------------------------------
(* Claims about the registry (checked under SpecRegistry) *)

ExpectedSlug(r) == IF r.form = "direct" THEN r.cls.name ELSE r.given

RegisteredSlugs ==
    { ExpectedSlug(registrations[i]) : i \in 1..Len(registrations) }

LastRegistered(s) ==
    LET idx == { i \in 1..Len(registrations) :
                     ExpectedSlug(registrations[i]) = s }
        last == CHOOSE i \in idx : \A j \in idx : j <= i
    IN  registrations[last].cls

\* C7: get_directors() maps every slug ever registered (the class's name in
\* the direct form, the given string in the decorator form) to the class of
\* the most recent registration under that slug, and the set of registered
\* slugs never shrinks.
C7_LastWriterWins ==
    /\ [](/\ DOMAIN get_directors = RegisteredSlugs
          /\ \A s \in RegisteredSlugs : get_directors[s] = LastRegistered(s))
    /\ [][DOMAIN DIRECTORS \subseteq DOMAIN DIRECTORS']_vars

\* C7 witness: one slug registered twice, through both forms, with distinct
\* classes, while another slug stays registered
C7_Witness ==
    /\ \E i, j \in 1..Len(registrations) :
           /\ i < j
           /\ ExpectedSlug(registrations[i]) = ExpectedSlug(registrations[j])
           /\ registrations[i].cls # registrations[j].cls
           /\ registrations[i].form # registrations[j].form
    /\ Cardinality(DOMAIN DIRECTORS) >= 2

----------------------------------------------------------------------------
(* Claims about the Cell geometry (checked under SpecGeom) *)

Abs(n) == IF n < 0 THEN -n ELSE n

Chebyshev(x1, y1, x2, y2) ==
    IF Abs(x1 - x2) >= Abs(y1 - y2) THEN Abs(x1 - x2) ELSE Abs(y1 - y2)

Manhattan(x1, y1, x2, y2) == Abs(x1 - x2) + Abs(y1 - y2)

InBounds(x, y) ==
    /\ 0 <= x /\ x < board_size[1]
    /\ 0 <= y /\ y < board_size[2]

Asked(op) == result # None /\ result.op = op

CoordsOf(cells) == { <<c.x, c.y>> : c \in cells }

\* C2: for a cell argument that is an 8-directional neighbor of self,
\* get_neighbor_across_from returns the cell at self's own coordinates; for
\* any other argument (self's own position included) it returns None.
C2_AcrossFromReturnsSelf ==
    Asked("get_neighbor_across_from") =>
        LET s == result.self
            c == result.cell
        IN  /\ result.outcome = "returned"
            /\ IF Chebyshev(s.x, s.y, c.x, c.y) = 1
                 THEN /\ result.value # None
                      /\ result.value.x = s.x
                      /\ result.value.y = s.y
                 ELSE result.value = None

\* C2 witness: the argument is a neighbor of self, the position beyond self
\* exists on the board, and the call returned self's position
C2_Witness ==
    /\ Asked("get_neighbor_across_from")
    /\ Chebyshev(result.self.x, result.self.y, result.cell.x, result.cell.y) = 1
    /\ InBounds(2 * result.self.x - result.cell.x,
                2 * result.self.y - result.cell.y)
    /\ result.value # None
    /\ <<result.value.x, result.value.y>> = <<result.self.x, result.self.y>>

\* C3: for a cell argument that is a cardinal neighbor of self,
\* get_cardinal_neighbor_across_from returns the cell at
\* (2*cell.x - self.x, 2*cell.y - self.y), or None when that position is out
\* of bounds; for any other argument it returns None.
C3_CardinalAcrossFromExtends ==
    Asked("get_cardinal_neighbor_across_from") =>
        LET s == result.self
            c == result.cell
            bx == 2 * c.x - s.x
            by == 2 * c.y - s.y
        IN  /\ result.outcome = "returned"
            /\ IF Manhattan(s.x, s.y, c.x, c.y) = 1 /\ InBounds(bx, by)
                 THEN /\ result.value # None
                      /\ result.value.x = bx
                      /\ result.value.y = by
                 ELSE result.value = None

\* C3 witness: three cells in a line, the call returned the far one
C3_Witness ==
    /\ Asked("get_cardinal_neighbor_across_from")
    /\ Manhattan(result.self.x, result.self.y, result.cell.x, result.cell.y) = 1
    /\ result.value # None
    /\ Manhattan(result.self.x, result.self.y, result.value.x, result.value.y) = 2

\* C4: for distinct self and cell in the same row, the result is the in-bounds
\* cells among (self.x, self.y-1) and (self.x, self.y+1); in the same column,
\* among (self.x-1, self.y) and (self.x+1, self.y); sharing neither row nor
\* column, the result is empty.
C4_PerpendicularNeighborsFlank ==
    Asked("get_perpendicular_neighbors_from") =>
        LET s == result.self
            c == result.cell
            flank(ps) == { p \in ps : InBounds(p[1], p[2]) }
        IN  /\ (s.y = c.y /\ s.x # c.x) =>
                   /\ result.outcome = "returned"
                   /\ CoordsOf(result.value) =
                          flank({<<s.x, s.y - 1>>, <<s.x, s.y + 1>>})
            /\ (s.x = c.x /\ s.y # c.y) =>
                   /\ result.outcome = "returned"
                   /\ CoordsOf(result.value) =
                          flank({<<s.x - 1, s.y>>, <<s.x + 1, s.y>>})
            /\ (s.x # c.x /\ s.y # c.y) =>
                   /\ result.outcome = "returned"
                   /\ result.value = {}

NeighborCoords(s) ==
    { p \in Positions(board_size) : Chebyshev(p[1], p[2], s.x, s.y) = 1 }

CardinalCoords(s) ==
    { p \in Positions(board_size) : Manhattan(p[1], p[2], s.x, s.y) = 1 }

\* C5: without filters get_neighbors returns at most 8 cells, none None, one
\* for each in-bounds position at Chebyshev distance 1 from self and no
\* other; get_cardinal_neighbors at most 4, one for each in-bounds position
\* at Manhattan distance 1 and no other.
C5_NeighborsAreTheAdjacentCells ==
    /\ (Asked("get_neighbors") /\ result.filters = {}) =>
           /\ result.outcome = "returned"
           /\ Cardinality(result.value) <= 8
           /\ None \notin result.value
           /\ CoordsOf(result.value) = NeighborCoords(result.self)
           /\ Cardinality(result.value) =
                  Cardinality(NeighborCoords(result.self))
    /\ (Asked("get_cardinal_neighbors") /\ result.filters = {}) =>
           /\ result.outcome = "returned"
           /\ Cardinality(result.value) <= 4
           /\ None \notin result.value
           /\ CoordsOf(result.value) = CardinalCoords(result.self)
           /\ Cardinality(result.value) = Cardinality(CardinalCoords(result.self))

\* C5 witness: all 8 neighbors of an inner cell were returned
C5_Witness ==
    /\ Asked("get_neighbors")
    /\ result.filters = {}
    /\ Cardinality(result.value) = 8

----------------------------------------------------------------------------
(* Claims about flags and numbers (checked under SpecFlags) *)

FlaggedAround(s) ==
    { p \in Positions(board_size) :
          Chebyshev(p[1], p[2], s.x, s.y) = 1 /\ board[p] = TYPE_FLAG }

IsNumber1To8(t) == t \in TYPE_NUMBER1..TYPE_NUMBER8

\* C6: for a cell of type NUMBER1..NUMBER8 with number N, num_flags_left is
\* N minus the number of its in-bounds 8-directional neighbors of type FLAG,
\* not clamped: negative when there are more flags than N.
C6_NumFlagsLeftIsNMinusF ==
    (Asked("num_flags_left") /\ IsNumber1To8(result.self.type)) =>
        /\ result.outcome = "returned"
        /\ result.value =
               Int_(result.self.type - Cardinality(FlaggedAround(result.self)))

\* C6 witness: a numbered cell with more flagged neighbors than its number
C6_Witness ==
    /\ Asked("num_flags_left")
    /\ IsNumber1To8(result.self.type)
    /\ Cardinality(FlaggedAround(result.self)) > result.self.type
    /\ result.outcome = "returned"
    /\ result.value.int < 0

OnlyFilter(name) == result.filters = {<<name, TRUE>>}

\* C9: get_neighbors(is_flagged=True) and get_neighbors(is_revealed=True) of
\* one cell are disjoint, and no cell type is both flagged and revealed.
C9_FlaggedAndRevealedDisjoint ==
    /\ (Asked("get_neighbors") /\ OnlyFilter("is_flagged")) =>
           result.value \cap
               get_neighbors(result.self, {<<"is_revealed", TRUE>>}) = {}
    /\ (Asked("get_neighbors") /\ OnlyFilter("is_revealed")) =>
           result.value \cap
               get_neighbors(result.self, {<<"is_flagged", TRUE>>}) = {}
    /\ \A t \in CellTypes :
           ~(is_flagged(Cell(0, 0, t)) /\ is_revealed(Cell(0, 0, t)))

\* C9 witness: a cell with a flagged neighbor and a revealed neighbor
C9_Witness ==
    /\ Asked("get_neighbors")
    /\ OnlyFilter("is_flagged")
    /\ result.value # {}
    /\ get_neighbors(result.self, {<<"is_revealed", TRUE>>}) # {}

\* C10: num_flags_left on a cell whose type is NUMBER0, UNREVEALED or FLAG
\* ends in an error, not in an integer, and leaves the history as it was.
C10_NumFlagsLeftOfNonNumberRaises ==
    /\ []((Asked("num_flags_left") /\ ~IsNumber1To8(result.self.type)) =>
              (result.outcome = "raised" /\ result.value = "TypeError"))
    /\ [][(result' # None /\ result'.op = "num_flags_left") =>
              history' = history]_vars

\* C10 witness: an empty (NUMBER0) cell with a flagged neighbor was asked,
\* on a Control whose history is not empty
C10_Witness ==
    /\ Asked("num_flags_left")
    /\ result.self.type = TYPE_NUMBER0
    /\ FlaggedAround(result.self) # {}
    /\ result.outcome = "raised"
    /\ history # <<>>

====
